---- MODULE Spec2Model ----
(***************************************************************************)
(* A model of bootstrap-rs (src/main.rs): the generator that turns the     *)
(* declarations of a parsed C header into Cangjie foreign declarations.    *)
(*                                                                         *)
(* Text is modelled as TLA+ strings and built exactly as the format! and   *)
(* writeln! calls build it, so that the string tests of the code           *)
(* (starts_with, strip_prefix, strip_suffix, HashSet<String>::contains)    *)
(* act on the same characters as in the program.  The output file is the   *)
(* sequence of its lines.  An Option<T> is a sequence of length 0 or 1.    *)
(***************************************************************************)
EXTENDS Integers, Sequences, FiniteSets, TLC

VARIABLES
    nodes,          \* tu.get_entity().get_children(): the top-level entities
    pc,             \* position of generate_bindings / main
    idx,            \* index of the next entity of the running pass
    created,        \* TRUE once File::create made the output file
    output,         \* the lines written to the output file so far
    STRUCT_NAMES,   \* static STRUCT_NAMES: HashSet<String>
    ENUM_NAMES,     \* static ENUM_NAMES: HashSet<String>
    TYPEDEFS,       \* static mut TYPEDEFS: Vec<typdef>
    err,            \* Option: the error generate_bindings returned to main
    runs,           \* number of calls of generate_bindings started so far
    ty,             \* the clang Type handed to translate_type
    tyText,         \* Option: the result of translate_type(ty)
    dflt            \* Option: the result of get_default(tyText)

vars == <<nodes, pc, idx, created, output, STRUCT_NAMES, ENUM_NAMES, TYPEDEFS,
          err, runs, ty, tyText, dflt>>

(***************************************************************************)
(* Bounds of the model.                                                    *)
(***************************************************************************)
MaxNodes == 3       \* top-level entities of a header
MaxFields == 3      \* members of a struct
MaxDepth == 2       \* nesting depth of a C type
MaxArgs == 1        \* parameters of a function prototype
MaxRuns == 2        \* calls of generate_bindings in one process

(***************************************************************************)
(* Results of functions that can panic (unwrap on None, unreachable!).     *)
(***************************************************************************)
Ok(s) == [ok |-> TRUE, s |-> s]
Panic == [ok |-> FALSE, s |-> ""]

None == <<>>
Some(x) == <<x>>

(***************************************************************************)
(* str::starts_with, str::strip_prefix, str::strip_suffix.                 *)
(***************************************************************************)
starts_with(s, p) == Len(s) >= Len(p) /\ SubSeq(s, 1, Len(p)) = p

ends_with(s, p) == Len(s) >= Len(p) /\ SubSeq(s, Len(s) - Len(p) + 1, Len(s)) = p

strip_prefix(s, p) == IF starts_with(s, p) THEN Some(SubSeq(s, Len(p) + 1, Len(s))) ELSE None

strip_suffix(s, p) == IF ends_with(s, p) THEN Some(SubSeq(s, 1, Len(s) - Len(p))) ELSE None

(***************************************************************************)
(* clang::Type.  kind is the TypeKind; the other fields are what the       *)
(* accessors used by translate_type return.                                *)
(***************************************************************************)
Prim(k) == [kind |-> k]
Pointer(t) == [kind |-> "Pointer", pointee |-> t]
Elaborated(t) == [kind |-> "Elaborated", named |-> t]
Typedef(t) == [kind |-> "Typedef", under |-> t]
Record(n) == [kind |-> "Record", name |-> n]
Enum(n) == [kind |-> "Enum", name |-> n]
ConstantArray(t, n) == [kind |-> "ConstantArray", elem |-> t, size |-> n]
FunctionPrototype(r, a) == [kind |-> "FunctionPrototype", result |-> r, args |-> a]
FunctionNoPrototype(r) == [kind |-> "FunctionNoPrototype", result |-> r]

\* Type::get_canonical_type: the type with every typedef and elaborated
\* wrapper removed, at every level.
RECURSIVE Canonical(_)
Canonical(t) ==
    CASE t.kind = "Typedef" -> Canonical(t.under)
      [] t.kind = "Elaborated" -> Canonical(t.named)
      [] t.kind = "Pointer" -> Pointer(Canonical(t.pointee))
      [] t.kind = "ConstantArray" -> ConstantArray(Canonical(t.elem), t.size)
      [] t.kind = "FunctionPrototype" ->
            FunctionPrototype(Canonical(t.result),
                              [i \in 1..Len(t.args) |-> Canonical(t.args[i])])
      [] t.kind = "FunctionNoPrototype" -> FunctionNoPrototype(Canonical(t.result))
      [] OTHER -> t

\* Vec<String>::join(", ") over results that may have panicked.
RECURSIVE join(_)
join(rs) ==
    IF rs = <<>> THEN Ok("")
    ELSE IF ~rs[1].ok THEN Panic
    ELSE IF Len(rs) = 1 THEN rs[1]
    ELSE LET rest == join(Tail(rs)) IN
         IF rest.ok THEN Ok(rs[1].s \o ", " \o rest.s) ELSE Panic

RECURSIVE translate_type(_)
translate_type(t) ==
    CASE t.kind = "Void" -> Ok("Unit")
      [] t.kind = "Bool" -> Ok("Bool")
      [] t.kind \in {"CharU", "UChar"} -> Ok("UInt8")
      [] t.kind \in {"CharS", "SChar"} -> Ok("Int8")
      [] t.kind = "UShort" -> Ok("UInt16")
      [] t.kind = "Short" -> Ok("Int16")
      [] t.kind = "UInt" -> Ok("UInt32")
      [] t.kind = "Int" -> Ok("Int32")
      [] t.kind = "ULong" -> Ok("UInt64")
      [] t.kind = "Long" -> Ok("Int64")
      [] t.kind = "ULongLong" -> Ok("UInt64")
      [] t.kind = "LongLong" -> Ok("Int64")
      [] t.kind = "Float" -> Ok("Float32")
      [] t.kind = "Double" -> Ok("Float64")
      [] t.kind = "Pointer" ->
            LET pointee == t.pointee IN
            CASE pointee.kind = "CharS" -> Ok("CString")
              [] pointee.kind = "FunctionPrototype" -> translate_type(pointee)
              [] OTHER ->
                    LET p == translate_type(pointee) IN
                    IF p.ok THEN Ok("CPointer<" \o p.s \o ">") ELSE Panic
      [] t.kind = "Elaborated" -> translate_type(t.named)
      [] t.kind = "Record" -> IF t.name = None THEN Panic ELSE Ok(t.name[1])
      [] t.kind = "Typedef" -> translate_type(Canonical(t))
      [] t.kind = "Enum" -> IF t.name = None THEN Panic ELSE Ok(t.name[1])
      [] t.kind = "ConstantArray" ->
            LET e == translate_type(t.elem) IN
            IF e.ok THEN Ok("VArray<" \o e.s \o ", $" \o ToString(t.size) \o ">")
            ELSE Panic
      [] t.kind = "FunctionPrototype" ->
            LET arg_types == join([i \in 1..Len(t.args) |-> translate_type(t.args[i])])
                r == translate_type(t.result)
            IN  IF arg_types.ok /\ r.ok
                THEN Ok("CFunc<(" \o arg_types.s \o ") -> " \o r.s \o ">")
                ELSE Panic
      [] t.kind = "FunctionNoPrototype" ->
            LET r == translate_type(t.result) IN
            IF r.ok THEN Ok("CFunc<() -> " \o r.s \o ">") ELSE Panic
      [] OTHER -> Panic

RECURSIVE get_default(_, _)
get_default(t, names) ==
    IF t = "Bool" THEN Ok("false")
    ELSE IF t = "Unit" THEN Ok("()")
    ELSE IF starts_with(t, "Int") \/ starts_with(t, "UInt") THEN Ok("0")
    ELSE IF starts_with(t, "Float") THEN Ok("0.0")
    ELSE IF starts_with(t, "VArray") THEN
        LET p == strip_prefix(t, "VArray<") IN
        IF p = None THEN Panic
        ELSE LET ty2 == strip_suffix(p[1], ">") IN
             IF ty2 = None THEN Panic
             ELSE LET d == get_default(ty2[1], names) IN
                  IF d.ok THEN Ok(t \o "(repeat: " \o d.s \o ")") ELSE Panic
    ELSE IF starts_with(t, "CPointer") THEN Ok("CPointer()")
    ELSE IF starts_with(t, "CString") THEN Ok("CString(CPointer<UInt8>())")
    ELSE IF starts_with(t, "CFunc") THEN Ok(t \o "(CPointer<Int8>())")
    ELSE IF t \in names THEN Ok("0")
    ELSE Ok(t \o "()")

(***************************************************************************)
(* What a handler does, in order: the lines it writes to the output file   *)
(* and the updates it makes to the static registries.  end tells how it    *)
(* returned: "ok" (Ok(())), "err" (an Err it built itself) or "panic" (an  *)
(* unwrap on None or unreachable!).  The events of a handler that did not  *)
(* return Ok are those before the point where it stopped.                  *)
(***************************************************************************)
Write(l) == [op |-> "write", arg |-> l]
InsertStruct(n) == [op |-> "struct", arg |-> n]
InsertEnum(n) == [op |-> "enum", arg |-> n]
PushTypedef(t) == [op |-> "typedef", arg |-> t]

Tr(ev, e) == [events |-> ev, end |-> e]

\* tr1; tr2 with the ? operator between them.
Then(tr1, tr2) ==
    IF tr1.end = "ok" THEN Tr(tr1.events \o tr2.events, tr2.end) ELSE tr1

\* if let Some(comment) = entity.get_comment() { writeln!(output, ...) }
write_comment(comment, indent) ==
    IF comment = None THEN <<>> ELSE <<Write(indent \o comment[1])>>

\* The loop of process_enum over the EnumConstantDecl children.
RECURSIVE enum_children(_, _)
enum_children(children, tname) ==
    IF children = <<>> THEN <<>>
    ELSE LET child == Head(children) IN
         (IF child.kind = "EnumConstantDecl"
          THEN write_comment(child.comment, "")
                 \o <<Write("const " \o child.name \o ": " \o tname \o " = "
                              \o ToString(child.value)),
                      Write("")>>
          ELSE <<>>)
         \o enum_children(Tail(children), tname)

process_enum(entity) ==
    LET c == write_comment(entity.comment, "") IN
    IF entity.name = None THEN Tr(c, "panic")
    ELSE LET tname == entity.name[1] IN
         Tr(c \o <<Write("type " \o tname \o " = Int32"), Write(""), InsertEnum(tname)>>
              \o enum_children(entity.children, tname),
            "ok")

\* The io::Error of line 109 (its message is CJK text in the source), the
\* io::Error of a failed write, and the error of Clang::new, parse or
\* File::create.
MisalignedError == "bit-field total is not a multiple of 8"

WriteError == "write failed"

OpenError == "open failed"

\* The source writes the heading "    // " followed by the two CJK characters
\* for "bit field"; the model's strings are ASCII.
BitfieldHeading == "    // bitfields"

RECURSIVE total_bits(_)
total_bits(bitfields) ==
    IF bitfields = <<>> THEN 0 ELSE bitfields[1][2] + total_bits(Tail(bitfields))

\* process_bitfields without the test of line 108.
process_bitfields_unchecked(bitfields) ==
    LET total == total_bits(bitfields) IN
    Tr(<<Write(BitfieldHeading)>>
         \o [i \in 1..Len(bitfields) |->
               LET field == bitfields[i][1]
                   field_name == IF field.name = None THEN "unnamed" ELSE field.name[1]
               IN  Write("    // " \o field_name \o " " \o field.display \o " : "
                           \o ToString(bitfields[i][2]))]
         \o <<Write("    var bitfields: VArray<UInt8, $" \o ToString(total \div 8)
                      \o "> = VArray<UInt8, $" \o ToString(total \div 8)
                      \o ">(repeat: 0)")>>,
       "ok")

process_bitfields(bitfields) ==
    LET total == total_bits(bitfields) IN
    IF total % 8 # 0 THEN Tr(<<>>, "err")
    ELSE Tr(<<Write(BitfieldHeading)>>
              \o [i \in 1..Len(bitfields) |->
                    LET field == bitfields[i][1]
                        field_name == IF field.name = None THEN "unnamed" ELSE field.name[1]
                    IN  Write("    // " \o field_name \o " " \o field.display \o " : "
                                \o ToString(bitfields[i][2]))]
              \o <<Write("    var bitfields: VArray<UInt8, $" \o ToString(total \div 8)
                           \o "> = VArray<UInt8, $" \o ToString(total \div 8)
                           \o ">(repeat: 0)")>>,
            "ok")

\* Lines 185-199 of process_struct: one field that is not a bit-field.
ordinary_field(field, enum_names) ==
    IF field.name = None THEN Tr(<<>>, "panic")
    ELSE LET field_type == translate_type(field.type) IN
         IF ~field_type.ok THEN Tr(<<>>, "panic")
         ELSE LET c == write_comment(field.comment, "    ")
                  d == get_default(field_type.s, enum_names)
              IN  IF ~d.ok THEN Tr(c, "panic")
                  ELSE Tr(c \o <<Write("    var " \o field.name[1] \o ": " \o field_type.s
                                         \o " = " \o d.s)>>,
                          "ok")

\* struct_children with the pending run flushed after the plain field that
\* ends it instead of before.
RECURSIVE struct_children_late(_, _, _)
struct_children_late(children, bitfields, enum_names) ==
    IF children = <<>>
    THEN IF bitfields # <<>> THEN process_bitfields(bitfields) ELSE Tr(<<>>, "ok")
    ELSE LET field == Head(children) IN
         IF field.kind # "FieldDecl"
         THEN struct_children_late(Tail(children), bitfields, enum_names)
         ELSE IF field.width # None
         THEN struct_children_late(Tail(children),
                                   Append(bitfields, <<field, field.width[1]>>), enum_names)
         ELSE Then(ordinary_field(field, enum_names),
                   Then(IF bitfields # <<>> THEN process_bitfields(bitfields)
                        ELSE Tr(<<>>, "ok"),
                        struct_children_late(Tail(children), <<>>, enum_names)))

\* Lines 176-206 of process_struct: the loop over the children, with the
\* local bitfields, and the flush of the trailing run.
RECURSIVE struct_children(_, _, _)
struct_children(children, bitfields, enum_names) ==
    IF children = <<>>
    THEN IF bitfields # <<>> THEN process_bitfields(bitfields) ELSE Tr(<<>>, "ok")
    ELSE LET field == Head(children) IN
         IF field.kind # "FieldDecl"
         THEN struct_children(Tail(children), bitfields, enum_names)
         ELSE IF field.width # None
         THEN struct_children(Tail(children),
                              Append(bitfields, <<field, field.width[1]>>), enum_names)
         ELSE Then(IF bitfields # <<>> THEN process_bitfields(bitfields) ELSE Tr(<<>>, "ok"),
                   Then(ordinary_field(field, enum_names),
                        struct_children(Tail(children), <<>>, enum_names)))

process_struct(entity, enum_names) ==
    IF entity.name = None THEN Tr(<<>>, "panic")
    ELSE LET name == entity.name[1] IN
         Then(Tr(write_comment(entity.comment, "")
                   \o <<InsertStruct(name), Write("@C"), Write("struct " \o name \o " {")>>,
                 "ok"),
              Then(struct_children(entity.children, <<>>, enum_names),
                   Tr(<<Write("}"), Write(""), InsertStruct(name)>>, "ok")))

\* The loop of process_function over the arguments: the text written by
\* write! so far, and whether translate_type panicked.
RECURSIVE function_args(_, _, _)
function_args(args, i, line) ==
    IF i > Len(args) THEN Ok(line)
    ELSE LET arg == args[i]
             arg_name0 == IF arg.name = None THEN "arg" \o ToString(i - 1) ELSE arg.name[1]
             arg_name == IF arg_name0 = "Unit" \/ arg_name0 = "type"
                         THEN arg_name0 \o "_" ELSE arg_name0
             arg_type == translate_type(arg.type)
         IN  IF ~arg_type.ok THEN [ok |-> FALSE, s |-> line]
             ELSE function_args(args, i + 1,
                                line \o arg_name \o ": " \o arg_type.s
                                     \o (IF i < Len(args) THEN ", " ELSE ""))

process_function(entity) ==
    IF entity.name = None THEN Tr(<<>>, "panic")
    ELSE LET name == entity.name[1]
             return_type == translate_type(entity.result)
         IN  IF ~return_type.ok THEN Tr(<<>>, "panic")
             ELSE LET c == write_comment(entity.comment, "")
                      a == function_args(entity.args, 1, "foreign func " \o name \o "(")
                  IN  IF ~a.ok THEN Tr(c \o <<Write(a.s)>>, "panic")
                      ELSE Tr(c \o <<Write(a.s \o "): " \o return_type.s), Write("")>>, "ok")

process_typedef(entity) ==
    IF entity.name = None THEN Tr(<<>>, "panic")
    ELSE LET name == entity.name[1]
             typ == translate_type(entity.under)
         IN  IF ~typ.ok THEN Tr(<<>>, "panic")
             ELSE IF name = typ.s THEN Tr(<<>>, "ok")
             ELSE Tr(<<PushTypedef([name |-> name, typ |-> typ.s,
                                    comment |-> entity.comment])>>, "ok")

\* generate_typedefs iterating from the last buffered typedef to the first.
RECURSIVE generate_typedefs_reversed(_, _)
generate_typedefs_reversed(typedefs, names) ==
    IF typedefs = <<>> THEN <<>>
    ELSE LET t == typedefs[Len(typedefs)] IN
         (IF t.typ \notin names THEN <<>>
          ELSE write_comment(t.comment, "") \o <<Write("type " \o t.name \o " = " \o t.typ)>>)
         \o generate_typedefs_reversed(SubSeq(typedefs, 1, Len(typedefs) - 1), names)

RECURSIVE generate_typedefs(_, _)
generate_typedefs(typedefs, names) ==
    IF typedefs = <<>> THEN <<>>
    ELSE LET t == Head(typedefs) IN
         (IF t.typ \notin names THEN <<>>
          ELSE write_comment(t.comment, "") \o <<Write("type " \o t.name \o " = " \o t.typ)>>)
         \o generate_typedefs(Tail(typedefs), names)

\* Lines 308-313 of generate_bindings.
FileHeader ==
    <<Write("// This file is automatically generated. DO NOT EDIT."),
      Write(""),
      Write("package clang_cj")>>

(***************************************************************************)
(* The C types of the model: every type of nesting depth at most MaxDepth  *)
(* that a C declaration can have.                                          *)
(***************************************************************************)
PrimKinds == {"Void", "Bool", "CharU", "UChar", "CharS", "SChar", "UShort", "Short",
              "UInt", "Int", "ULong", "Long", "ULongLong", "LongLong", "Float", "Double"}

\* A kind for which translate_type has no arm (long double).
UnsupportedKinds == {"LongDouble"}

RecordNames == {"Point", "Interval"}

EnumNames == {"Color"}

LeafTypes ==
    {Prim(k) : k \in PrimKinds \cup UnsupportedKinds}
        \cup {Record(n) : n \in {Some(r) : r \in RecordNames} \cup {None}}
        \cup {Enum(Some(n)) : n \in EnumNames}

ArraySizes == {2}

ArgTypes == {Prim("Int"), Pointer(Prim("CharS"))}

ArgLists == UNION {[1..n -> ArgTypes] : n \in 0..MaxArgs}

IsFunctionType(t) == Canonical(t).kind \in {"FunctionPrototype", "FunctionNoPrototype"}

\* A type an object (a field, an array element) can have.
IsObjectType(t) == ~IsFunctionType(t) /\ Canonical(t).kind # "Void"

\* A type a function can return.
IsResultType(t) == ~IsFunctionType(t) /\ Canonical(t).kind # "ConstantArray"

RECURSIVE CTypes(_)
CTypes(d) ==
    IF d = 0 THEN LeafTypes
    ELSE LET T == CTypes(d - 1) IN
         T \cup {Pointer(t) : t \in T}
           \cup {Typedef(t) : t \in T}
           \cup {Elaborated(t) : t \in {u \in T : u.kind \in {"Record", "Enum", "Typedef"}}}
           \cup {ConstantArray(t, n) : t \in {u \in T : IsObjectType(u)}, n \in ArraySizes}
           \cup {FunctionNoPrototype(t) : t \in {u \in T : IsResultType(u)}}
           \cup {FunctionPrototype(t, a) : t \in {u \in T : IsResultType(u)}, a \in ArgLists}

(***************************************************************************)
(* clang::Entity.  sys is is_in_system_header(); name and comment are the  *)
(* Options get_name() and get_comment() return.                            *)
(***************************************************************************)
EnumConstantDecl(n, v, c) ==
    [kind |-> "EnumConstantDecl", name |-> n, value |-> v, comment |-> c]

EnumDecl(n, ch, c, sys) ==
    [kind |-> "EnumDecl", name |-> n, children |-> ch, comment |-> c, sys |-> sys]

ParmDecl(n, t) == [kind |-> "ParmDecl", name |-> n, type |-> t]

FunctionDecl(n, r, a, c, sys) ==
    [kind |-> "FunctionDecl", name |-> n, result |-> r, args |-> a, comment |-> c,
     sys |-> sys]

TypedefDecl(n, u, c, sys) ==
    [kind |-> "TypedefDecl", name |-> n, under |-> u, comment |-> c, sys |-> sys]

\* width is get_bit_field_width(); display is get_type().get_display_name().
FieldDecl(n, t, w, d, c) ==
    [kind |-> "FieldDecl", name |-> n, type |-> t, width |-> w, display |-> d,
     comment |-> c]

StructDecl(n, ch, c, sys) ==
    [kind |-> "StructDecl", name |-> n, children |-> ch, comment |-> c, sys |-> sys]

(***************************************************************************)
(* The headers of the model.                                               *)
(***************************************************************************)
StructOf(n) == Elaborated(Record(Some(n)))

\* enum Color { RED = 0, /** green */ GREEN = 1, BLUE = 2 };
ColorEnum ==
    EnumDecl(Some("Color"),
             <<EnumConstantDecl("RED", 0, None),
               EnumConstantDecl("GREEN", 1, Some("/** green */")),
               EnumConstantDecl("BLUE", 2, None)>>,
             None, FALSE)

\* enum { ANON = -1 };
AnonEnum == EnumDecl(None, <<EnumConstantDecl("ANON", -1, None)>>, None, FALSE)

\* /** name */ char *name(int type, void (*)(int));
NameFunction ==
    FunctionDecl(Some("name"), Pointer(Prim("CharS")),
                 <<ParmDecl(Some("type"), Prim("Int")),
                   ParmDecl(None, Pointer(FunctionPrototype(Prim("Void"), <<Prim("Int")>>)))>>,
                 Some("/** name */"), FALSE)

\* /** alias */ typedef struct Point PointAlias;
PointAliasTypedef == TypedefDecl(Some("PointAlias"), StructOf("Point"), Some("/** alias */"), FALSE)

\* typedef struct Point Pt;
PtTypedef == TypedefDecl(Some("Pt"), StructOf("Point"), None, FALSE)

\* typedef struct Point Point;
PointTypedef == TypedefDecl(Some("Point"), StructOf("Point"), None, FALSE)

\* typedef int myint;
IntTypedef == TypedefDecl(Some("myint"), Prim("Int"), None, FALSE)

\* typedef enum Color ColorAlias;
ColorTypedef == TypedefDecl(Some("ColorAlias"), Elaborated(Enum(Some("Color"))), None, FALSE)

\* typedef struct Sys SysAlias;
SysTypedef == TypedefDecl(Some("SysAlias"), StructOf("Sys"), None, FALSE)

\* struct Point;
PointForward == StructDecl(Some("Point"), <<>>, None, FALSE)

\* /** point */ struct Point { int x; Color c; };
PointStruct ==
    StructDecl(Some("Point"),
               <<FieldDecl(Some("x"), Prim("Int"), None, "int", None),
                 FieldDecl(Some("c"), Elaborated(Enum(Some("Color"))), None, "enum Color",
                           None)>>,
               Some("/** point */"), FALSE)

\* struct Int32 { char *s; };
Int32Struct ==
    StructDecl(Some("Int32"),
               <<FieldDecl(Some("s"), Pointer(Prim("CharS")), None, "char *", None)>>,
               None, FALSE)

\* struct Sys { int fd; }; declared in a system header
SysStruct ==
    StructDecl(Some("Sys"), <<FieldDecl(Some("fd"), Prim("Int"), None, "int", None)>>,
               None, TRUE)

\* Declarations of every kind, with typedefs that name a struct, a
\* primitive, and a struct whose name is the text of a primitive.
Declarations ==
    {ColorEnum, NameFunction, PointAliasTypedef, PtTypedef, IntTypedef, PointStruct,
     Int32Struct}

\* Declarations that repeat a name, come from a system header or have no
\* name, and typedefs that name an enum, their own struct, and a struct of
\* a system header.
Redeclarations ==
    {ColorEnum, AnonEnum, ColorTypedef, PointTypedef, SysTypedef, PointForward,
     PointStruct, SysStruct}

\* The members a struct of the second family of headers is built from:
\* fields named by their position, bit-fields of widths 3, 5 and 8, plain
\* fields of type int, char * and long double, and a nested declaration.
BitWidths == {3, 5, 8}

MemberName(i) == Some("m" \o ToString(i))

MemberChoices(i) ==
    {FieldDecl(MemberName(i), Prim("UInt"), Some(w), "unsigned int", None) : w \in BitWidths}
      \cup {FieldDecl(MemberName(i), Prim("Int"), None, "int", Some("/** m */")),
            FieldDecl(MemberName(i), Pointer(Prim("CharS")), None, "char *", None),
            FieldDecl(MemberName(i), Prim("LongDouble"), None, "long double", None),
            [kind |-> "UnionDecl", name |-> None]}

MemberLists ==
    UNION {{m \in [1..n -> UNION {MemberChoices(i) : i \in 1..n}] :
              \A i \in 1..n : m[i] \in MemberChoices(i)} : n \in 0..MaxFields}

Headers ==
    UNION {[1..n -> Declarations] : n \in 0..MaxNodes}
      \cup UNION {[1..n -> Redeclarations] : n \in 0..MaxNodes}
      \cup {<<StructDecl(Some("Flags"), m, None, FALSE)>> : m \in MemberLists}

(***************************************************************************)
(* The effect of a handler on the output file and the registries.          *)
(***************************************************************************)
RECURSIVE Apply(_, _)
Apply(events, st) ==
    IF events = <<>> THEN st
    ELSE LET e == Head(events) IN
         Apply(Tail(events),
               CASE e.op = "write" -> [st EXCEPT !.output = Append(@, e.arg)]
                 [] e.op = "struct" -> [st EXCEPT !.structs = @ \cup {e.arg}]
                 [] e.op = "enum" -> [st EXCEPT !.enums = @ \cup {e.arg}]
                 [] e.op = "typedef" -> [st EXCEPT !.typedefs = Append(@, e.arg)])

Commit(st) ==
    /\ output' = st.output
    /\ STRUCT_NAMES' = st.structs
    /\ ENUM_NAMES' = st.enums
    /\ TYPEDEFS' = st.typedefs

\* The position after entity i of a pass: the next entity, or the next pass.
After(pass, i) ==
    IF i < Len(nodes) THEN <<pass, i + 1>>
    ELSE IF pass = "pass1" /\ Len(nodes) > 0 THEN <<"pass2", 1>>
    ELSE <<"pass3", 1>>

\* A handler called with ?: it returns Ok and generate_bindings goes on at
\* position next, or it stops (Err, panic), or one of its writes fails and
\* the io::Error is returned with the earlier lines written.
Call(tr, st, next) ==
    \/ /\ Commit(Apply(tr.events, st))
       /\ pc' = (CASE tr.end = "ok" -> next[1]
                   [] tr.end = "err" -> "failed"
                   [] tr.end = "panic" -> "panicked")
       /\ idx' = IF tr.end = "ok" THEN next[2] ELSE idx
       /\ err' = IF tr.end = "err" THEN Some(MisalignedError) ELSE None
    \/ \E i \in 1..Len(tr.events) :
          /\ tr.events[i].op = "write"
          /\ Commit(Apply(SubSeq(tr.events, 1, i - 1), st))
          /\ pc' = "failed"
          /\ idx' = idx
          /\ err' = Some(WriteError)

Registry == [output |-> output, structs |-> STRUCT_NAMES, enums |-> ENUM_NAMES,
             typedefs |-> TYPEDEFS]

TypeVars == <<ty, tyText, dflt>>

(***************************************************************************)
(* generate_bindings, called once by main.                                 *)
(***************************************************************************)
Init ==
    /\ nodes \in Headers
    /\ pc = "start"
    /\ idx = 1
    /\ created = FALSE
    /\ output = <<>>
    /\ STRUCT_NAMES = {}
    /\ ENUM_NAMES = {}
    /\ TYPEDEFS = <<>>
    /\ err = None
    /\ runs = 0
    /\ ty = Prim("Void")
    /\ tyText = None
    /\ dflt = None

\* Lines 296-305: Clang::new, parse or File::create returns an Err.
OpenFails ==
    /\ pc = "start"
    /\ pc' = "failed"
    /\ err' = Some(OpenError)
    /\ runs' = runs + 1
    /\ UNCHANGED <<nodes, idx, created, output, STRUCT_NAMES, ENUM_NAMES, TYPEDEFS, TypeVars>>

\* Lines 296-313: the file is created (truncated) and the header written.
Start ==
    /\ pc = "start"
    /\ created' = TRUE
    /\ runs' = runs + 1
    /\ Call(Tr(FileHeader, "ok"), [Registry EXCEPT !.output = <<>>],
            IF Len(nodes) > 0 THEN <<"pass1", 1>> ELSE <<"pass3", 1>>)
    /\ UNCHANGED <<nodes, TypeVars>>

Current == nodes[idx]

ProcessEnum ==
    /\ pc = "pass1"
    /\ ~Current.sys
    /\ Current.kind = "EnumDecl"
    /\ Call(process_enum(Current), Registry, After("pass1", idx))
    /\ UNCHANGED <<nodes, created, runs, TypeVars>>

ProcessFunction ==
    /\ pc = "pass1"
    /\ ~Current.sys
    /\ Current.kind = "FunctionDecl"
    /\ Call(process_function(Current), Registry, After("pass1", idx))
    /\ UNCHANGED <<nodes, created, runs, TypeVars>>

ProcessTypedef ==
    /\ pc = "pass1"
    /\ ~Current.sys
    /\ Current.kind = "TypedefDecl"
    /\ Call(process_typedef(Current), Registry, After("pass1", idx))
    /\ UNCHANGED <<nodes, created, runs, TypeVars>>

SkipPass1 ==
    /\ pc = "pass1"
    /\ Current.sys \/ Current.kind \notin {"EnumDecl", "FunctionDecl", "TypedefDecl"}
    /\ pc' = After("pass1", idx)[1]
    /\ idx' = After("pass1", idx)[2]
    /\ UNCHANGED <<nodes, created, output, STRUCT_NAMES, ENUM_NAMES, TYPEDEFS, err, runs,
                   TypeVars>>

ProcessStruct ==
    /\ pc = "pass2"
    /\ ~Current.sys
    /\ Current.kind = "StructDecl"
    /\ Call(process_struct(Current, ENUM_NAMES), Registry, After("pass2", idx))
    /\ UNCHANGED <<nodes, created, runs, TypeVars>>

SkipPass2 ==
    /\ pc = "pass2"
    /\ Current.sys \/ Current.kind # "StructDecl"
    /\ pc' = After("pass2", idx)[1]
    /\ idx' = After("pass2", idx)[2]
    /\ UNCHANGED <<nodes, created, output, STRUCT_NAMES, ENUM_NAMES, TYPEDEFS, err, runs,
                   TypeVars>>

GenerateTypedefs ==
    /\ pc = "pass3"
    /\ Call(Tr(generate_typedefs(TYPEDEFS, STRUCT_NAMES), "ok"), Registry, <<"done", 1>>)
    /\ UNCHANGED <<nodes, created, runs, TypeVars>>

Next ==
    \/ OpenFails
    \/ Start
    \/ ProcessEnum
    \/ ProcessFunction
    \/ ProcessTypedef
    \/ SkipPass1
    \/ ProcessStruct
    \/ SkipPass2
    \/ GenerateTypedefs

Spec == Init /\ [][Next]_vars

(***************************************************************************)
(* generate_bindings is pub: a process that calls it again after it        *)
(* returned, with another header and the same output path.                 *)
(***************************************************************************)
MaxRunNodes == 2    \* top-level entities of a header of a repeated call

RunEntities == {ColorEnum, NameFunction, PointAliasTypedef, PointStruct, SysStruct}

RunHeaders == UNION {[1..n -> RunEntities] : n \in 0..MaxRunNodes}

InitRuns ==
    /\ nodes \in RunHeaders
    /\ pc = "start"
    /\ idx = 1
    /\ created = FALSE
    /\ output = <<>>
    /\ STRUCT_NAMES = {}
    /\ ENUM_NAMES = {}
    /\ TYPEDEFS = <<>>
    /\ err = None
    /\ runs = 0
    /\ ty = Prim("Void")
    /\ tyText = None
    /\ dflt = None

Again ==
    /\ pc \in {"done", "failed"}
    /\ runs < MaxRuns
    /\ nodes' \in RunHeaders
    /\ pc' = "start"
    /\ idx' = 1
    /\ err' = None
    /\ UNCHANGED <<created, output, STRUCT_NAMES, ENUM_NAMES, TYPEDEFS, runs, TypeVars>>

NextRuns == Next \/ Again

SpecRuns == InitRuns /\ [][NextRuns]_vars

(***************************************************************************)
(* The type mapper on its own: translate_type applied to a type, and       *)
(* get_default applied to the text of a field's type (lines 186 and 198).  *)
(***************************************************************************)
Idle == <<nodes, pc, idx, created, output, STRUCT_NAMES, TYPEDEFS, err, runs>>

InitType ==
    /\ nodes = <<>>
    /\ pc = "types"
    /\ idx = 1
    /\ created = FALSE
    /\ output = <<>>
    /\ STRUCT_NAMES = {}
    /\ ENUM_NAMES \in SUBSET EnumNames
    /\ TYPEDEFS = <<>>
    /\ err = None
    /\ runs = 0
    /\ ty \in CTypes(MaxDepth)
    /\ tyText = None
    /\ dflt = None

TranslateType ==
    /\ pc = "types"
    /\ tyText = None
    /\ tyText' = Some(translate_type(ty))
    /\ UNCHANGED <<Idle, ENUM_NAMES, ty, dflt>>

GetDefault ==
    /\ pc = "types"
    /\ tyText # None
    /\ tyText[1].ok
    /\ IsObjectType(ty)
    /\ dflt = None
    /\ dflt' = Some(get_default(tyText[1].s, ENUM_NAMES))
    /\ UNCHANGED <<Idle, ENUM_NAMES, ty, tyText>>

NextType == TranslateType \/ GetDefault

SpecType == InitType /\ [][NextType]_vars

(***************************************************************************)
(* Properties of generate_bindings (Spec, SpecRuns).                       *)
(***************************************************************************)
Range(f) == {f[i] : i \in DOMAIN f}

Occurrences(out, line) == Cardinality({i \in DOMAIN out : out[i] = line})

RECURSIVE Flatten(_)
Flatten(ss) == IF ss = <<>> THEN <<>> ELSE Head(ss) \o Flatten(Tail(ss))

IsPrefix(p, q) == Len(p) <= Len(q) /\ SubSeq(q, 1, Len(p)) = p

Emitted(e, kind) == e.kind = kind /\ ~e.sys

\* The entities of the given kind whose handler has returned Ok.
Handled(kind) ==
    LET upto == CASE pc \in {"pass3", "done"} -> Len(nodes)
                  [] pc = "pass1" -> IF kind = "StructDecl" THEN 0 ELSE idx - 1
                  [] pc = "pass2" -> IF kind = "StructDecl" THEN idx - 1 ELSE Len(nodes)
                  [] OTHER -> 0
    IN  SelectSeq(SubSeq(nodes, 1, upto), LAMBDA e : Emitted(e, kind))

\* The members of a struct, and its bit-field runs: member i ends a run
\* when it is a bit-field and the next member is not.
IsField(c) == c.kind = "FieldDecl"

Members(e) == SelectSeq(e.children, IsField)

IsBit(f) == f.width # None

RunEnd(m, i) == IsBit(m[i]) /\ (i = Len(m) \/ ~IsBit(m[i + 1]))

RunStart(m, i) ==
    CHOOSE j \in 1..i : /\ \A k \in j..i : IsBit(m[k])
                        /\ j = 1 \/ ~IsBit(m[j - 1])

RECURSIVE Widths(_, _, _)
Widths(m, j, i) == IF j > i THEN 0 ELSE m[j].width[1] + Widths(m, j + 1, i)

RunBits(m, i) == Widths(m, RunStart(m, i), i)

RunEnds(m) == SelectSeq([i \in 1..Len(m) |-> i], LAMBDA i : RunEnd(m, i))

Misaligned(m) == {i \in Range(RunEnds(m)) : RunBits(m, i) % 8 # 0}

PackedLine(n) ==
    "    var bitfields: VArray<UInt8, $" \o ToString(n) \o "> = VArray<UInt8, $"
        \o ToString(n) \o ">(repeat: 0)"

IsPackedLine(l) == starts_with(l, "    var bitfields: VArray<UInt8, $")

\* The packed fields of the runs of m that end before member last.
PackedBefore(m, last) ==
    LET ends == SelectSeq(RunEnds(m), LAMBDA i : i < last) IN
    [k \in 1..Len(ends) |-> PackedLine(RunBits(m, ends[k]) \div 8)]

PackedOf(structs) ==
    Flatten([k \in 1..Len(structs) |->
               PackedBefore(Members(structs[k]), Len(Members(structs[k])) + 1)])

\* C4: a bit-field run is packed exactly when its total width is a multiple
\* of 8, into one field VArray<UInt8, $(total/8)>: every struct whose
\* handler returned Ok has only aligned runs and one packed field per run,
\* and the misalignment error is returned exactly at the first misaligned
\* run, with no packed field written for it.
C4_BitfieldRuns ==
    /\ pc \in {"pass2", "pass3", "done"} =>
          /\ \A k \in DOMAIN Handled("StructDecl") :
                Misaligned(Members(Handled("StructDecl")[k])) = {}
          /\ SelectSeq(output, IsPackedLine) = PackedOf(Handled("StructDecl"))
    /\ err = Some(MisalignedError) =>
          /\ Emitted(Current, "StructDecl")
          /\ Misaligned(Members(Current)) # {}
          /\ LET before == SelectSeq(SubSeq(nodes, 1, idx - 1),
                                     LAMBDA e : Emitted(e, "StructDecl"))
                 bad == CHOOSE i \in Misaligned(Members(Current)) :
                           \A j \in Misaligned(Members(Current)) : i <= j
             IN  SelectSeq(output, IsPackedLine)
                   = PackedOf(before) \o PackedBefore(Members(Current), bad)

\* A misaligned run after an aligned one: the first is packed, the second
\* is the error.
C4_Witness ==
    /\ err = Some(MisalignedError)
    /\ Len(SelectSeq(output, IsPackedLine)) = 1
    /\ Len(Members(Current)) >= 3

IsFieldLine(l) == starts_with(l, "    var ")

\* The field lines of a struct, member by member.
FieldLinesOf(e, enum_names) ==
    LET m == Members(e) IN
    Flatten([i \in 1..Len(m) |->
               IF ~IsBit(m[i])
               THEN LET t == translate_type(m[i].type).s IN
                    <<"    var " \o m[i].name[1] \o ": " \o t \o " = "
                        \o get_default(t, enum_names).s>>
               ELSE IF RunEnd(m, i) THEN <<PackedLine(RunBits(m, i) \div 8)>>
               ELSE <<>>])

FieldLinesOfAll(structs, enum_names) ==
    Flatten([k \in 1..Len(structs) |-> FieldLinesOf(structs[k], enum_names)])

\* C5: the field lines of the output are those of the declared members, in
\* the order of declaration, one per plain field and one per bit-field run
\* at the place of the run: complete for every struct whose handler
\* returned Ok, and a prefix of them in every state.
C5_FieldOrder ==
    /\ pc \in {"pass2", "pass3", "done"} =>
          SelectSeq(output, IsFieldLine) = FieldLinesOfAll(Handled("StructDecl"), ENUM_NAMES)
    /\ IsPrefix(SelectSeq(output, IsFieldLine),
                FieldLinesOfAll(SelectSeq(nodes, LAMBDA e : Emitted(e, "StructDecl")),
                                ENUM_NAMES))

\* A struct of three members with a bit-field run between two plain fields.
C5_Witness ==
    /\ pc = "done"
    /\ Len(nodes) = 1
    /\ Len(Members(nodes[1])) = 3
    /\ LET l == SelectSeq(output, IsFieldLine) IN
       /\ Len(l) = 3
       /\ ~IsPackedLine(l[1])
       /\ IsPackedLine(l[2])
       /\ ~IsPackedLine(l[3])

StructLine(n) == "struct " \o n \o " {"

\* C1: a struct name that reaches process_struct more than once is declared
\* once: the output never holds two `struct <name> {` lines of one name, and
\* holds one when the run is done.
C1_StructDeclaredOnce ==
    \A k \in DOMAIN nodes :
        (Emitted(nodes[k], "StructDecl") /\ nodes[k].name # None) =>
            /\ Occurrences(output, StructLine(nodes[k].name[1])) <= 1
            /\ pc = "done" => Occurrences(output, StructLine(nodes[k].name[1])) = 1

AliasLine(a, u) == "type " \o a \o " = " \o u

\* C2: when the run is done, the typedef of alias name a and mapped type u
\* has its line `type a = u` in the output if and only if the underlying
\* type is a record whose name was registered as a struct name and differs
\* from a; a typedef of a primitive, a pointer, an enum or an unregistered
\* record has none.
C2_AliasIffRegisteredRecord ==
    pc = "done" =>
        \A k \in DOMAIN nodes :
            Emitted(nodes[k], "TypedefDecl") =>
                LET a == nodes[k].name[1]
                    u == translate_type(nodes[k].under).s
                    c == Canonical(nodes[k].under)
                IN  (AliasLine(a, u) \in Range(output))
                      <=> (/\ c.kind = "Record"
                           /\ c.name[1] \in STRUCT_NAMES
                           /\ a # c.name[1])

\* C3: a call of generate_bindings that failed leaves no partial text in
\* the output file.
C3_NoPartialOutput ==
    pc \in {"failed", "panicked"} => output = <<>>

EnumLine(n) == "type " \o n \o " = Int32"

ConstLine(c, n) == "const " \o c.name \o ": " \o n \o " = " \o ToString(c.value)

IsConstant(c) == c.kind = "EnumConstantDecl"

\* C9: when the run is done, the output holds for every enum it processed
\* one line `type <Enum> = Int32`, and its `const` lines of that enum are the
\* enumerators of the source, with their values, in their order.
C9_EnumEmitted ==
    pc = "done" =>
        \A k \in DOMAIN nodes :
            (Emitted(nodes[k], "EnumDecl") /\ nodes[k].name # None) =>
                LET n == nodes[k].name[1]
                    cs == SelectSeq(nodes[k].children, IsConstant)
                IN  /\ Occurrences(output, EnumLine(n)) = 1
                    /\ SelectSeq(output,
                                 LAMBDA l : /\ starts_with(l, "const ")
                                            /\ \E i \in 1..Len(l) :
                                                  starts_with(SubSeq(l, i, Len(l)),
                                                              ": " \o n \o " = "))
                         = [i \in 1..Len(cs) |-> ConstLine(cs[i], n)]

\* The names of all structs of the header outside system headers.
FullStructNames ==
    {nodes[k].name[1] : k \in {j \in DOMAIN nodes : Emitted(nodes[j], "StructDecl")}}

\* The typedefs of the header that differ from their mapped type, in the
\* order of declaration.
DeclaredTypedefs ==
    LET tds == SelectSeq(nodes, LAMBDA e : /\ Emitted(e, "TypedefDecl")
                                           /\ e.name[1] # translate_type(e.under).s)
    IN  [k \in 1..Len(tds) |->
           [name |-> tds[k].name[1], typ |-> translate_type(tds[k].under).s,
            comment |-> tds[k].comment]]

\* The alias lines (with their comments) of the typedefs of the header
\* whose mapped type is the name of a struct of the header.
DeclaredAliases ==
    LET tds == SelectSeq(DeclaredTypedefs, LAMBDA t : t.typ \in FullStructNames) IN
    Flatten([k \in 1..Len(tds) |->
               (IF tds[k].comment = None THEN <<>> ELSE <<tds[k].comment[1]>>)
                 \o <<AliasLine(tds[k].name, tds[k].typ)>>])

IsPass1Line(l) ==
    \/ starts_with(l, "foreign func ")
    \/ starts_with(l, "const ")
    \/ \E k \in DOMAIN nodes :
          /\ Emitted(nodes[k], "EnumDecl")
          /\ nodes[k].name # None
          /\ l = EnumLine(nodes[k].name[1])

\* C7: enums and functions are written and typedefs buffered in pass 1,
\* structs are written in pass 2, and the aliases are resolved in pass 3,
\* against the names of all structs of the header, and written after the
\* last struct in the order of declaration of their typedefs.
C7_PassOrder ==
    /\ LET structs == {j \in DOMAIN output : output[j] = "@C"} IN
       structs # {} =>
          LET first == CHOOSE j \in structs : \A k \in structs : j <= k IN
          \A i \in first..Len(output) : ~IsPass1Line(output[i])
    /\ pc = "pass1" => STRUCT_NAMES = {} /\ "@C" \notin Range(output)
    /\ pc \in {"pass1", "pass2"} =>
          \A k \in DOMAIN DeclaredTypedefs :
              AliasLine(DeclaredTypedefs[k].name, DeclaredTypedefs[k].typ)
                  \notin Range(output)
    /\ pc \in {"pass2", "pass3", "done"} => TYPEDEFS = DeclaredTypedefs
    /\ pc \in {"pass3", "done"} => STRUCT_NAMES = FullStructNames
    /\ pc = "done" =>
          /\ Len(output) >= Len(DeclaredAliases)
          /\ SubSeq(output, Len(output) - Len(DeclaredAliases) + 1, Len(output))
               = DeclaredAliases
          /\ \A j \in DOMAIN output :
                output[j] = "@C" => j <= Len(output) - Len(DeclaredAliases)

\* A typedef declared before the struct it names and an enum declared after
\* it: the enum comes first in the output, the alias last.
C7_Witness ==
    /\ pc = "done"
    /\ nodes = <<PointAliasTypedef, PointStruct, ColorEnum>>
    /\ output[Len(output)] = AliasLine("PointAlias", "Point")
    /\ \E i, j \in DOMAIN output :
          i < j /\ output[i] = EnumLine("Color") /\ output[j] = StructLine("Point")

(***************************************************************************)
(* The output of a call in a fresh process: the handlers applied in the    *)
(* order of generate_bindings to empty registries.                         *)
(***************************************************************************)
Pass1Events(e) ==
    IF e.sys THEN <<>>
    ELSE CASE e.kind = "EnumDecl" -> process_enum(e).events
           [] e.kind = "FunctionDecl" -> process_function(e).events
           [] e.kind = "TypedefDecl" -> process_typedef(e).events
           [] OTHER -> <<>>

RECURSIVE FreshPass1(_, _)
FreshPass1(es, st) ==
    IF es = <<>> THEN st ELSE FreshPass1(Tail(es), Apply(Pass1Events(Head(es)), st))

RECURSIVE FreshPass2(_, _)
FreshPass2(es, st) ==
    IF es = <<>> THEN st
    ELSE FreshPass2(Tail(es),
                    IF Emitted(Head(es), "StructDecl")
                    THEN Apply(process_struct(Head(es), st.enums).events, st)
                    ELSE st)

FreshOutput(es) ==
    LET s0 == [output |-> <<>>, structs |-> {}, enums |-> {}, typedefs |-> <<>>]
        s2 == FreshPass2(es, FreshPass1(es, Apply(FileHeader, s0)))
    IN  Apply(generate_typedefs(s2.typedefs, s2.structs), s2).output

\* C6: the registries are empty when a call of generate_bindings starts,
\* and the output of a call that is done is the output of its header in a
\* fresh process.
C6_RegistryPerRun ==
    /\ pc = "start" => STRUCT_NAMES = {} /\ ENUM_NAMES = {} /\ TYPEDEFS = <<>>
    /\ pc = "done" => output = FreshOutput(nodes)

(***************************************************************************)
(* Properties of the type mapper (SpecType).                               *)
(***************************************************************************)

\* C8: translate_type maps a pointer whose canonical pointee is (signed)
\* char to CString, a pointer whose canonical pointee is a function
\* prototype to the bare CFunc<...> text of that prototype, and every other
\* pointer to CPointer<translate_type(pointee)>.
C8_PointerMapping ==
    (tyText # None /\ ty.kind = "Pointer") =>
        LET pointee == Canonical(ty.pointee)
            inner == translate_type(ty.pointee)
        IN  tyText[1] =
              (CASE pointee.kind = "CharS" -> Ok("CString")
                 [] pointee.kind = "FunctionPrototype" -> translate_type(pointee)
                 [] OTHER -> IF inner.ok THEN Ok("CPointer<" \o inner.s \o ">") ELSE Panic)

\* C10: get_default never fails on the text of a field's type; for a fixed
\* array it is t(repeat: d) with d the default of the element type, for a
\* registered enum it is 0, and for a named record n it is n().
C10_DefaultLiteral ==
    dflt # None =>
        LET c == Canonical(ty) IN
        /\ dflt[1].ok
        /\ c.kind = "ConstantArray" =>
              dflt[1].s = tyText[1].s \o "(repeat: "
                            \o get_default(translate_type(c.elem).s, ENUM_NAMES).s \o ")"
        /\ (c.kind = "Enum" /\ c.name[1] \in ENUM_NAMES) => dflt[1].s = "0"
        /\ c.kind = "Record" => dflt[1].s = c.name[1] \o "()"

====
